---- MODULE Spec2Model ----
(***************************************************************************)
(* Model of src/main.cpp: a flow network (class Graph) built with addEdge, *)
(* the breadth-first augmenting-path search (bfs), the max-flow solver     *)
(* (fordFulkerson) and the per-edge flow reducer (reduceFlow).             *)
(*                                                                         *)
(* Edge records are addressed by the code's 0-based indices: the record    *)
(* with index i is edges[i + 1] of the sequence, and the forward edge at   *)
(* an even index i is paired with the reverse edge at i ^ 1.               *)
(***************************************************************************)
EXTENDS Integers, Sequences, FiniteSets, TLC

\* ------------------------------------------------------------------ bounds
\* Vertex count given to Graph(V) for the freely built networks.
NumVertices == 3
\* Largest number of addEdge calls on a freely built network.
MaxEdges == 2
\* Largest capacity passed to addEdge on a freely built network.
MaxCap == 2
\* Largest number of consecutive fordFulkerson calls made by the caller.
MaxSolves == 2
\* Largest number of iterations of the solver loop followed once the
\* accumulated total has overflowed (source = sink: the loop never ends).
MaxSpin == 1

\* ------------------------------------------------------- program constants
\* numeric_limits<int>::max()
IntMax == 2147483647
\* Graph g1(6), Graph g2(6)
MainVertices == 6
\* runAll: int source = 0, int sink = 5
MainSource == 0
MainSink == 5

VARIABLES
    scenario,       \* which caller: "g1", "g2" (main's two networks) or "free"
    numVertices,    \* Graph::numVertices
    edges,          \* Graph::edges
    adjacencyList,  \* Graph::adjacencyList (vertex -> sequence of edge indices)
    givenEdges,     \* the global givenEdges
    pc,             \* control position
    source, sink,   \* arguments of the running / last call
    caller,         \* who called the running fordFulkerson
    maxFlow,        \* fordFulkerson's local maxFlow
    iters,          \* iterations of the solver loop in the running call
    rMaxFlow,       \* reduceFlow's local maxFlow
    ri,             \* reduceFlow's loop index i
    originalFlow,   \* reduceFlow's local originalFlow
    calls,          \* history: the finished top-level calls, oldest first
    pre             \* history: the flows when the running top-level call began

vars == <<scenario, numVertices, edges, adjacencyList, givenEdges, pc, source,
          sink, caller, maxFlow, iters, rMaxFlow, ri, originalFlow, calls, pre>>

graphVars == <<numVertices, edges, adjacencyList, givenEdges>>
reduceVars == <<rMaxFlow, ri, originalFlow>>

\* --------------------------------------------------------------- helpers
Min(a, b) == IF a < b THEN a ELSE b

\* i ^ 1 on a non-negative index
Xor1(i) == IF i % 2 = 0 THEN i + 1 ELSE i - 1

\* edges[i] for the code's 0-based index i
EdgeAt(es, i) == es[i + 1]

\* edges.size()
Size(es) == Len(es)

Vertices == 0 .. (numVertices - 1)

\* the flow fields of the edge table, in index order
Flows(es) == [k \in 1 .. Len(es) |-> es[k].flow]

\* the indices of the forward (user-added) edges
ForwardIdx(es) == {i \in 0 .. (Len(es) - 1) : i % 2 = 0}

\* ---------------------------------------------------------------- addEdge
\* The two networks main() builds, as the argument lists of its addEdge calls.
G1Edges ==
    << <<0, 1, 20>>, <<0, 2, 20>>, <<1, 2, 20>>, <<1, 3, 20>>, <<2, 1, 20>>,
       <<2, 4, 20>>, <<3, 2, 20>>, <<3, 5, 20>>, <<4, 3, 20>>, <<4, 5, 20>> >>

G2Edges ==
    << <<0, 1, 16>>, <<0, 2, 13>>, <<1, 2, 10>>, <<1, 3, 12>>, <<2, 1, 4>>,
       <<2, 4, 14>>, <<3, 2, 9>>, <<3, 5, 20>>, <<4, 3, 7>>, <<4, 5, 4>> >>

MainEdges(s) == IF s = "g1" THEN G1Edges ELSE G2Edges

\* Lines 47-51: the record and the edge table grow whatever the arguments.
PushedGiven(ge, u, v, c) == Append(ge, <<u, v, c>>)

PushedEdges(es, u, v, c) ==
    Append(Append(es, [source |-> u, destination |-> v, capacity |-> c, flow |-> 0]),
           [source |-> v, destination |-> u, capacity |-> 0, flow |-> 0])

\* Lines 52-53 with both endpoints inside [0, numVertices).
PushedAdjacency(adj, es, u, v) ==
    LET a1 == [adj EXCEPT ![u] = Append(@, Size(es) - 2)]
    IN  [a1 EXCEPT ![v] = Append(@, Size(es) - 1)]

\* Graph::addEdge(source, destination, capacity), lines 45-54.  The code checks
\* nothing: lines 47-51 run for every argument.  With an endpoint outside
\* [0, numVertices) the push_back of line 52 or 53 indexes adjacencyList out of
\* range, which is undefined: the build either stops there ("trap") or the write
\* lands outside the lists and the call goes on ("lost").
AdjacencyOutcomes(adj, es, u, v) ==
    LET inU == u \in DOMAIN adj
        inV == v \in DOMAIN adj
        a1  == IF inU THEN [adj EXCEPT ![u] = Append(@, Size(es) - 2)] ELSE adj
        a2  == IF inV THEN [a1 EXCEPT ![v] = Append(@, Size(es) - 1)] ELSE a1
    IN  IF inU /\ inV
        THEN {[adj |-> PushedAdjacency(adj, es, u, v), pc |-> "build"]}
        ELSE {[adj |-> a2, pc |-> "build"]}
             \cup (IF inU THEN {[adj |-> a1, pc |-> "aborted"]}
                          ELSE {[adj |-> adj, pc |-> "aborted"]})

addEdge(u, v, c) ==
    /\ pc = "build"
    /\ givenEdges' = PushedGiven(givenEdges, u, v, c)
    /\ edges' = PushedEdges(edges, u, v, c)
    /\ \E o \in AdjacencyOutcomes(adjacencyList, PushedEdges(edges, u, v, c), u, v) :
          /\ adjacencyList' = o.adj
          /\ pc' = o.pc
    /\ UNCHANGED <<scenario, numVertices, source, sink, caller, maxFlow, iters,
                   rMaxFlow, ri, originalFlow, calls, pre>>

\* main(), lines 201-211 and 217-227: the next addEdge call of the scenario.
AddEdgeMain ==
    /\ scenario \in {"g1", "g2"}
    /\ Size(edges) < 2 * Len(MainEdges(scenario))
    /\ LET a == MainEdges(scenario)[(Size(edges) \div 2) + 1]
       IN  addEdge(a[1], a[2], a[3])

\* A caller adding a road between two distinct intersections of the network.
AddEdgeFree ==
    /\ scenario = "free"
    /\ Size(edges) < 2 * MaxEdges
    /\ \E u \in Vertices, v \in Vertices, c \in 0 .. MaxCap :
          /\ u # v
          /\ addEdge(u, v, c)

\* A caller passing any integers, valid or not.
AddEdgeAny ==
    /\ scenario = "free"
    /\ Size(edges) < 2 * MaxEdges
    /\ \E u \in -1 .. numVertices, v \in -1 .. numVertices, c \in -1 .. MaxCap :
          addEdge(u, v, c)

\* --------------------------------------------------------------------- bfs
\* Line 72: an edge is traversable when it has residual capacity.
Traversable(e) == e.capacity > e.flow

\* Lines 69-78: the scan of adjacencyList[u], from its k-th entry on.
RECURSIVE ScanAdj(_, _, _, _)
ScanAdj(es, lst, k, st) ==
    IF k > Len(lst) THEN st
    ELSE LET i == lst[k]
             e == EdgeAt(es, i)
         IN  IF ~st.visited[e.destination] /\ Traversable(e)
             THEN ScanAdj(es, lst, k + 1,
                          [q       |-> Append(st.q, e.destination),
                           parent  |-> [st.parent EXCEPT ![e.destination] = i],
                           visited |-> [st.visited EXCEPT ![e.destination] = TRUE]])
             ELSE ScanAdj(es, lst, k + 1, st)

\* Lines 64-79: the queue loop.
RECURSIVE BfsLoop(_, _, _)
BfsLoop(es, adj, st) ==
    IF st.q = << >> THEN st
    ELSE BfsLoop(es, adj, ScanAdj(es, adj[Head(st.q)], 1, [st EXCEPT !.q = Tail(@)]))

\* Graph::bfs, lines 56-82.  parent is fordFulkerson's vector; the entries of
\* the vertices this search does not visit are never read by the caller (lines
\* 93-104 walk visited vertices only), so they are left at the vector's
\* initial 0 here.
bfs(es, adj, s, t) ==
    LET st == BfsLoop(es, adj,
                      [q       |-> <<s>>,
                       visited |-> [x \in DOMAIN adj |-> x = s],
                       parent  |-> [x \in DOMAIN adj |-> IF x = s THEN -1 ELSE 0]])
    IN  [found |-> st.visited[t], parent |-> st.parent]

\* ----------------------------------------------------------- fordFulkerson
\* Lines 93 and 99: the edge indices visited by the walk from v back to s,
\* sink side first.
RECURSIVE PathEdges(_, _, _, _)
PathEdges(es, parent, v, s) ==
    IF v = s THEN << >>
    ELSE <<parent[v]>> \o PathEdges(es, parent, EdgeAt(es, parent[v]).source, s)

\* A bottleneck that looks at the sink-side edge only (the min of line 96 lost).
BottleneckSinkEdge(es, path, acc) ==
    IF path = << >> THEN acc
    ELSE EdgeAt(es, Head(path)).capacity - EdgeAt(es, Head(path)).flow

\* Lines 91-97: the bottleneck of the path.
RECURSIVE Bottleneck(_, _, _)
Bottleneck(es, path, acc) ==
    IF path = << >> THEN acc
    ELSE Bottleneck(es, Tail(path),
                    Min(acc, EdgeAt(es, Head(path)).capacity - EdgeAt(es, Head(path)).flow))

\* An augmentation that fills every edge of the path to its own capacity
\* instead of pushing the bottleneck.
RECURSIVE AugmentSaturating(_, _, _)
AugmentSaturating(es, path, pathFlow) ==
    IF path = << >> THEN es
    ELSE LET i  == Head(path)
             r  == EdgeAt(es, i).capacity - EdgeAt(es, i).flow
             e1 == [es EXCEPT ![i + 1].flow = @ + r]
             e2 == [e1 EXCEPT ![Xor1(i) + 1].flow = @ - r]
         IN  AugmentSaturating(e2, Tail(path), pathFlow)

\* Lines 99-104: the augmentation along the path.
RECURSIVE Augment(_, _, _)
Augment(es, path, pathFlow) ==
    IF path = << >> THEN es
    ELSE LET i  == Head(path)
             e1 == [es EXCEPT ![i + 1].flow = @ + pathFlow]
             e2 == [e1 EXCEPT ![Xor1(i) + 1].flow = @ - pathFlow]
         IN  Augment(e2, Tail(path), pathFlow)

\* An if in place of the while of line 89: one augmentation per call.
LoopOnce(found, n) == found /\ n = 0

\* Line 89: the loop goes on while the search reaches the sink.
LoopContinues(found, n) == found

\* What one iteration of the loop of lines 89-107 finds and pushes.
Iteration(es, adj, s, t) ==
    LET b    == bfs(es, adj, s, t)
        path == IF b.found THEN PathEdges(es, b.parent, t, s) ELSE << >>
        pf   == Bottleneck(es, path, IntMax)
    IN  [found |-> b.found, path |-> path, pathFlow |-> pf,
         edges |-> Augment(es, path, pf)]

\* a + b leaves the range of int (b is a pathFlow, never negative)
Overflows(a, b) == a > 0 /\ b > IntMax - a

\* the int that two's complement hardware leaves when a + b overflowed:
\* a + b - 2^32
WrapAdd(a, b) == (a - IntMax - 1) + (b - IntMax - 1)

\* The arguments a caller of the freely built network passes: the first and
\* the last vertex, or the first vertex twice.
FreeArgs == {<<0, numVertices - 1>>, <<0, 0>>}

\* runAll's arguments, lines 168-169.
MainArgs == {<<MainSource, MainSink>>}

\* The caller has finished building: main has made all its addEdge calls; a
\* free caller may stop at any time.
BuildDone ==
    /\ pc = "build"
    /\ scenario \in {"g1", "g2"} => Size(edges) = 2 * Len(MainEdges(scenario))

\* The arguments of the next call: those of the first call are kept.
NextArgs ==
    IF calls # << >> THEN {<<source, sink>>}
    ELSE IF scenario = "free" THEN FreeArgs ELSE MainArgs

\* Entry to fordFulkerson, lines 86-87.
Enter(who) ==
    /\ pc' = "ff"
    /\ caller' = who
    /\ maxFlow' = 0
    /\ iters' = 0

\* A top-level call of fordFulkerson(source, sink): line 172 of runAll, or a
\* free caller's (at most MaxSolves in a row, before any reduceFlow).
CallFordFulkerson ==
    /\ BuildDone \/ pc = "idle"
    /\ \A k \in 1 .. Len(calls) : calls[k].op = "solve"
    /\ Len(calls) < (IF scenario = "free" THEN MaxSolves ELSE 1)
    /\ \E a \in NextArgs : source' = a[1] /\ sink' = a[2]
    /\ Enter("user")
    /\ pre' = Flows(edges)
    /\ UNCHANGED <<scenario, graphVars, reduceVars, calls>>

\* A top-level call of reduceFlow(source, sink), up to line 114: line 175 of
\* runAll (after its fordFulkerson), or a free caller's, at most once.
CallReduceFlow ==
    /\ BuildDone \/ pc = "idle"
    /\ \A k \in 1 .. Len(calls) : calls[k].op = "solve"
    /\ scenario \in {"g1", "g2"} => Len(calls) = 1
    /\ \E a \in NextArgs : source' = a[1] /\ sink' = a[2]
    /\ Enter("reduceInit")
    /\ pre' = Flows(edges)
    /\ UNCHANGED <<scenario, graphVars, reduceVars, calls>>

\* One iteration of the loop of lines 89-107 whose total stays an int.  With
\* source = sink the search succeeds at once, the path is empty and pathFlow
\* stays INT_MAX; that loop never ends and is followed for MaxSpin rounds.
FFIterate ==
    /\ pc = "ff"
    /\ LET it == Iteration(edges, adjacencyList, source, sink)
       IN  /\ LoopContinues(it.found, iters)
           /\ ~Overflows(maxFlow, it.pathFlow)
           /\ source = sink => iters <= MaxSpin
           /\ edges' = it.edges
           /\ maxFlow' = maxFlow + it.pathFlow
    /\ iters' = iters + 1
    /\ UNCHANGED <<scenario, numVertices, adjacencyList, givenEdges, pc, source,
                   sink, caller, reduceVars, calls, pre>>

\* One iteration whose maxFlow += pathFlow (line 106) overflows int, which is
\* undefined: the sum wraps and the loop goes on, or the build traps.
FFIterateOverflow ==
    /\ pc = "ff"
    /\ LET it == Iteration(edges, adjacencyList, source, sink)
       IN  /\ LoopContinues(it.found, iters)
           /\ Overflows(maxFlow, it.pathFlow)
           /\ iters <= MaxSpin
           /\ edges' = it.edges
           /\ \E outcome \in {"wrap", "trap"} :
                 IF outcome = "wrap"
                 THEN maxFlow' = WrapAdd(maxFlow, it.pathFlow) /\ pc' = "ff"
                 ELSE maxFlow' = maxFlow /\ pc' = "aborted"
    /\ iters' = iters + 1
    /\ UNCHANGED <<scenario, numVertices, adjacencyList, givenEdges, source,
                   sink, caller, reduceVars, calls, pre>>

\* The search fails (line 89) and the solver returns maxFlow (line 109).
Returns ==
    /\ pc = "ff"
    /\ ~LoopContinues(Iteration(edges, adjacencyList, source, sink).found, iters)

\* ... to the top-level caller.
FFReturn ==
    /\ Returns
    /\ caller = "user"
    /\ pc' = "idle"
    /\ calls' = Append(calls, [op |-> "solve", ret |-> maxFlow,
                               pre |-> pre, post |-> Flows(edges)])
    /\ UNCHANGED <<scenario, graphVars, source, sink, caller, maxFlow, iters,
                   reduceVars, pre>>

\* ... to line 114 of reduceFlow: int maxFlow = fordFulkerson(source, sink),
\* then the loop of line 116 starts at i = 0.
ReduceInit ==
    /\ Returns
    /\ caller = "reduceInit"
    /\ rMaxFlow' = maxFlow
    /\ ri' = 0
    /\ pc' = "reduce"
    /\ UNCHANGED <<scenario, graphVars, source, sink, caller, maxFlow, iters,
                   originalFlow, calls, pre>>

\* Lines 116-125: the next forward edge is decremented and the solver called.
TrialStart ==
    /\ pc = "reduce"
    /\ ri < Size(edges)
    /\ originalFlow' = EdgeAt(edges, ri).flow
    /\ edges' = [edges EXCEPT ![ri + 1].flow = EdgeAt(edges, ri).flow - 1]
    /\ Enter("reduceTrial")
    /\ UNCHANGED <<scenario, numVertices, adjacencyList, givenEdges, source,
                   sink, rMaxFlow, ri, calls, pre>>

\* Lines 127-130: the flow the trial leaves on edge i.
Restored(es, i, newFlow, wanted, original) ==
    IF newFlow # wanted THEN [es EXCEPT ![i + 1].flow = original] ELSE es

\* Line 131 and the i += 2 of line 116: the edge is left after one trial.
NextIndex(i, kept, flow) == i + 2

\* The solver returns to line 125; lines 127-131 and the step of line 116.
TrialEnd ==
    /\ Returns
    /\ caller = "reduceTrial"
    /\ edges' = Restored(edges, ri, maxFlow, rMaxFlow, originalFlow)
    /\ ri' = NextIndex(ri, maxFlow = rMaxFlow, EdgeAt(edges, ri).flow)
    /\ pc' = "reduce"
    /\ UNCHANGED <<scenario, numVertices, adjacencyList, givenEdges, source,
                   sink, caller, maxFlow, iters, rMaxFlow, originalFlow, calls, pre>>

\* Line 116 ends the loop and reduceFlow returns.
ReduceReturn ==
    /\ pc = "reduce"
    /\ ri >= Size(edges)
    /\ pc' = "idle"
    /\ calls' = Append(calls, [op |-> "reduce", ret |-> rMaxFlow,
                               pre |-> pre, post |-> Flows(edges)])
    /\ UNCHANGED <<scenario, graphVars, source, sink, caller, maxFlow, iters,
                   reduceVars, pre>>

\* ------------------------------------------------------------ specifications
InitGraph(sc, nv, ge) ==
    /\ scenario = sc
    /\ numVertices = nv
    /\ edges = << >>
    /\ adjacencyList = [v \in 0 .. (nv - 1) |-> << >>]
    /\ givenEdges = ge
    /\ pc = "build"
    /\ source = 0
    /\ sink = 0
    /\ caller = "user"
    /\ maxFlow = 0
    /\ iters = 0
    /\ rMaxFlow = 0
    /\ ri = 0
    /\ originalFlow = 0
    /\ calls = << >>
    /\ pre = << >>

\* The global givenEdges when main constructs g2 (line 217): the ten records
\* of g1, each with its endpoints overwritten by printEdges (lines 155-156).
GivenAfterG1 == [k \in 1 .. Len(G1Edges) |-> <<-1, -1, G1Edges[k][3]>>]

\* Graph(V), lines 39-43: main's g1 and g2, or a free caller's network.
Init ==
    \/ InitGraph("g1", MainVertices, << >>)
    \/ InitGraph("g2", MainVertices, GivenAfterG1)
    \/ InitGraph("free", NumVertices, << >>)

Next ==
    \/ AddEdgeMain
    \/ AddEdgeFree
    \/ CallFordFulkerson
    \/ CallReduceFlow
    \/ FFIterate
    \/ FFIterateOverflow
    \/ FFReturn
    \/ ReduceInit
    \/ TrialStart
    \/ TrialEnd
    \/ ReduceReturn

Spec == Init /\ [][Next]_vars

\* Construction alone, by a caller that passes any integers to addEdge.
InitBuild == InitGraph("free", NumVertices, << >>)

NextBuild == AddEdgeAny

BuildSpec == InitBuild /\ [][NextBuild]_vars

\* A caller that only builds and solves, between two distinct vertices.
CallFordFulkersonDistinct == CallFordFulkerson /\ source' # sink'

NextSolve ==
    \/ AddEdgeMain
    \/ AddEdgeFree
    \/ CallFordFulkersonDistinct
    \/ FFIterate
    \/ FFReturn

SolveSpec == Init /\ [][NextSolve]_vars

\* ------------------------------------------------- quantities of the claims
RECURSIVE SumOver(_, _)
SumOver(S, f) ==
    IF S = {} THEN 0
    ELSE LET x == CHOOSE y \in S : TRUE
         IN  f[x] + SumOver(S \ {x}, f)

\* flow on the forward edges leaving v, in the flow vector fl
OutFlow(v, fl) ==
    LET S == {i \in ForwardIdx(edges) : EdgeAt(edges, i).source = v}
    IN  SumOver(S, [i \in S |-> fl[i + 1]])

\* flow on the forward edges entering v, in the flow vector fl
InFlow(v, fl) ==
    LET S == {i \in ForwardIdx(edges) : EdgeAt(edges, i).destination = v}
    IN  SumOver(S, [i \in S |-> fl[i + 1]])

\* capacity of the cut (S, Vertices \ S)
CutCapacity(S) ==
    LET X == {i \in ForwardIdx(edges) :
                 EdgeAt(edges, i).source \in S /\ EdgeAt(edges, i).destination \notin S}
    IN  SumOver(X, [i \in X |-> EdgeAt(edges, i).capacity])

\* the reference value: the capacity of a minimum cut between s and t
MinCut(s, t) ==
    LET cuts == {S \in SUBSET Vertices : s \in S /\ t \notin S}
        caps == {CutCapacity(S) : S \in cuts}
    IN  CHOOSE c \in caps : \A d \in caps : c <= d

AllZero(fl) == \A k \in 1 .. Len(fl) : fl[k] = 0

\* the k-th finished call is a fordFulkerson call on a network with no flow
FreshSolve(k) == calls[k].op = "solve" /\ AllZero(calls[k].pre)

\* the k-th finished call is a reduceFlow call on a network that a first
\* fordFulkerson call, on zero flows, has solved
ReduceAfterSolve(k) == k >= 2 /\ calls[k].op = "reduce" /\ FreshSolve(1)

\* sum of the residual capacities of the edge records leaving the source
SourceResidual(es) ==
    LET S == {i \in 0 .. (Len(es) - 1) : EdgeAt(es, i).source = source}
    IN  SumOver(S, [i \in S |-> EdgeAt(es, i).capacity - EdgeAt(es, i).flow])

\* this step is one iteration of the solver's loop
IterationStep == pc = "ff" /\ iters' = iters + 1

\* this step ends a reducer trial
TrialEndStep == pc = "ff" /\ caller = "reduceTrial" /\ pc' = "reduce"

\* ------------------------------------------------------------------ claims

\* C1: on a network built with addEdge whose flows are all 0, and for source
\* different from sink, fordFulkerson returns the maximum flow value, which is
\* the capacity of a minimum cut; it returns 40 on main's first network and 23
\* on its second.
MaxFlowIsMinCut ==
    \A k \in 1 .. Len(calls) :
        (FreshSolve(k) /\ source # sink) =>
            /\ calls[k].ret = MinCut(source, sink)
            /\ scenario = "g1" => calls[k].ret = 40
            /\ scenario = "g2" => calls[k].ret = 23

\* C1 witness: main's second network has been solved, with total 23.
SolvedScenarioB ==
    /\ scenario = "g2"
    /\ calls # << >>
    /\ FreshSolve(1)
    /\ calls[1].ret = 23
    /\ MinCut(source, sink) = 23

\* C2 (as claimed): after reduceFlow on a network that fordFulkerson has
\* solved with total F*, the flow leaving the source and the flow entering the
\* sink, on the forward edges, both still equal F*.
ReducePreservesTotal ==
    \A k \in 1 .. Len(calls) :
        ReduceAfterSolve(k) =>
            /\ OutFlow(source, calls[k].post) - InFlow(source, calls[k].post) = calls[1].ret
            /\ InFlow(sink, calls[k].post) - OutFlow(sink, calls[k].post) = calls[1].ret

\* C3 (as claimed): after fordFulkerson returns and after reduceFlow returns,
\* every forward edge has 0 <= flow <= capacity (the reducer skips an edge
\* whose flow is 0, so none ends negative).
CapacityRespected ==
    \A k \in 1 .. Len(calls) :
        \A i \in ForwardIdx(edges) :
            /\ 0 <= calls[k].post[i + 1]
            /\ calls[k].post[i + 1] <= EdgeAt(edges, i).capacity

\* C4 (as claimed): in every reachable state the forward edge at an even index
\* i and the reverse edge at i ^ 1 carry opposite flows.
PairedFlowsOpposite ==
    \A i \in ForwardIdx(edges) :
        EdgeAt(edges, i).flow = -EdgeAt(edges, Xor1(i)).flow

\* C5 (as claimed): after reduceFlow on a solved network no forward edge
\* carries more flow than it did when reduceFlow was called.
ReduceNonIncreasing ==
    \A k \in 1 .. Len(calls) :
        ReduceAfterSolve(k) =>
            \A i \in ForwardIdx(edges) : calls[k].post[i + 1] <= calls[k].pre[i + 1]

\* C6 (as claimed): a second fordFulkerson call on the solved network leaves
\* every flow unchanged and returns the same total as the first call.
SecondSolveSameTotal ==
    \A k \in 2 .. Len(calls) :
        (calls[k].op = "solve" /\ FreshSolve(1)) =>
            /\ calls[k].post = calls[k].pre
            /\ calls[k].ret = calls[1].ret

\* C6 (amended): a second fordFulkerson call on the solved network leaves
\* every flow unchanged and returns 0, the flow it added; the flow leaving the
\* source is still the total the first call returned.
SecondSolveAddsNothing ==
    \A k \in 2 .. Len(calls) :
        (calls[k].op = "solve" /\ FreshSolve(1)) =>
            /\ calls[k].post = calls[k].pre
            /\ calls[k].ret = 0
            /\ OutFlow(source, calls[k].post) - InFlow(source, calls[k].post) = calls[1].ret

\* C6 witness: a second call has returned on a network whose first call found
\* a positive total.
SolvedTwice ==
    /\ Len(calls) >= 2
    /\ FreshSolve(1)
    /\ calls[2].op = "solve"
    /\ calls[1].ret > 0

\* C7: after fordFulkerson returns on a network whose flows were all 0, the
\* flow entering every vertex other than source and sink, on the forward
\* edges, equals the flow leaving it.
FlowConservation ==
    \A k \in 1 .. Len(calls) :
        FreshSolve(k) =>
            \A v \in Vertices \ {source, sink} :
                InFlow(v, calls[k].post) = OutFlow(v, calls[k].post)

\* C7 witness: a solved network with flow through an inner vertex.
FlowThroughInnerVertex ==
    /\ calls # << >>
    /\ FreshSolve(1)
    /\ \E v \in Vertices \ {source, sink} : InFlow(v, calls[1].post) > 0

\* C8 (as claimed): addEdge with an endpoint outside [0, numVertices) or with a
\* negative capacity changes nothing, so the edge table and the original-edge
\* record only ever hold edges with valid endpoints and capacity >= 0.
InvalidAddEdgeRejected ==
    /\ \A k \in 1 .. Len(edges) :
          /\ edges[k].source \in Vertices
          /\ edges[k].destination \in Vertices
          /\ edges[k].capacity >= 0
    /\ \A k \in 1 .. Len(givenEdges) :
          /\ givenEdges[k][1] \in Vertices
          /\ givenEdges[k][2] \in Vertices
          /\ givenEdges[k][3] >= 0
    /\ pc # "aborted"

\* C9 (as claimed): on a solved network the reducer leaves an edge only when a
\* decrement lost the total (and was undone) or the flow reached 0: after a
\* decrement that kept the total and left a positive flow it tries the same
\* edge again.
ReducerDescends ==
    [][(/\ TrialEndStep
        /\ calls # << >>
        /\ maxFlow = rMaxFlow
        /\ EdgeAt(edges', ri).flow = originalFlow - 1
        /\ EdgeAt(edges', ri).flow > 0)
          => ri' = ri]_vars

\* C10 (as claimed): every iteration of the solver's loop pushes at least 1,
\* saturates an edge it pushed on and so uses up residual capacity leaving the
\* source, which bounds the number of iterations: the solver terminates.
SolverIterationProgress ==
    [][IterationStep =>
          /\ maxFlow' >= maxFlow + 1
          /\ \E k \in 1 .. Len(edges) :
                /\ edges'[k].flow > edges[k].flow
                /\ edges'[k].flow = edges'[k].capacity
          /\ SourceResidual(edges') < SourceResidual(edges)
          /\ SourceResidual(edges') >= 0]_vars

\* C10, the part that holds: the same for source different from sink ...
SolverProgressDistinct ==
    [][(IterationStep /\ source # sink) =>
          /\ maxFlow' >= maxFlow + 1
          /\ \E k \in 1 .. Len(edges) :
                /\ edges'[k].flow > edges[k].flow
                /\ edges'[k].flow = edges'[k].capacity
          /\ SourceResidual(edges') < SourceResidual(edges)
          /\ SourceResidual(edges') >= 0]_vars

\* ... the reducer's loop moves to the next forward edge after every trial ...
ReducerAdvances == [][TrialEndStep => (ri' = ri + 2 /\ ri' <= Size(edges))]_vars

\* ... and an iteration between distinct vertices never overflows the total,
\* so a running solver can always iterate (FFIterate) or return: with the two
\* bounded measures above, every such call returns.
RunningCallCanStep ==
    (pc = "ff" /\ source # sink) =>
        LET it == Iteration(edges, adjacencyList, source, sink)
        IN  LoopContinues(it.found, iters) => ~Overflows(maxFlow, it.pathFlow)

====
